---- MODULE Spec2Model ----
(***************************************************************************)
(* A model of package nestif (nakabonne/nestif): Checker.Check locates the *)
(* if statements of every function body of a parsed file and scores each   *)
(* of them with a visitor that walks the subtree of the if statement.      *)
(*                                                                         *)
(* Two revisions of the scorer are modelled:                               *)
(*   - src/nestif.go           visitor.Visit with no else special-casing,  *)
(*   - src/unnamed/part_002    visitor.Visit with the elseifs map.         *)
(* Check, checkFunc and checkIf are the same code in both revisions.       *)
(*                                                                         *)
(* The parsed file (ast.File) is a sequence of nodes in source order: the  *)
(* index of a node is its source position, and every node names its parent *)
(* and the field of the parent that holds it.                              *)
(***************************************************************************)
EXTENDS Integers, Sequences, FiniteSets, TLC

\* Largest number of AST nodes of a file handed to Check.
MaxNodes == 5
\* Largest number of AST nodes of an if statement handed to checkIf by itself.
MaxIfNodes == 5
\* Largest Checker.MinComplexity the model constructs a Checker with.
MaxMinComplexity == 2
\* Largest number of declarations of a checked file.
MaxDecls == 2
\* Largest number of statements of a checked file that are not if statements.
MaxOthers == 1
\* Largest file handed to a Check call that follows an earlier Check call.
MaxRecheckNodes == 1
\* Largest file handed to the Check calls of a Checker whose calls are compared.
MaxKeptNodes == 3
\* Largest number of lines of a file the command-line tool reads.
MaxLines == 2
\* Largest number of arguments of the command-line tool.
MaxArgs == 2
\* Largest number of --exclude-dirs patterns.
MaxPatterns == 1
\* Largest --top.
MaxTop == 1
\* Largest --min.
MaxMin == 1
\* Largest number of texts in the debug writer when Check is called.
MaxWritten == 2

VARIABLES
    c,      \* the Checker: MinComplexity and issues
    c0,     \* a second Checker, MinComplexity = 0, that checks the same files
    f,      \* the ast.File being checked
    pc,     \* where the control of Check is
    fn,     \* the declaration the ast.Inspect callback of Check was last called with
    stmt,   \* the loop variable of for _, stmt := range fn.Body.List
    node,   \* the node the ast.Inspect callback of checkFunc is called with next (0: none)
    v,      \* the visitor of the running checkIf, or of the last one
    stack,  \* the active ast.Walk / visitor.Visit calls, innermost last
    rev,    \* the revision of visitor.Visit that is built: src/nestif.go or part_002
    kept,   \* history: an earlier Check call of the Checker, its file and its result
    other,  \* a second invocation of Check on the same Checker, while it does not run
    bad,    \* the if statements whose condition printer.Fprint fails to print
    debugWriter, \* c.debugWriter (c.logWriter): whether it is set, and what was written to it
    app,    \* the app of cmd/nestif: its flags, its compiled patterns, stdout, stderr
    args,   \* the arguments app.run is called with
    arg,    \* the number of arguments app.check has dealt with
    apc,    \* where the control of app.run is
    src,    \* the bytes ioutil.ReadFile returned to the running app.checkFile
    issues, \* the local variable issues of app.check and app.run
    code    \* the value app.run returned

checkervars == <<c, c0, f, pc, fn, stmt, node, v, stack>>

\* The state of a run of the app.
appvars == <<app, args, arg, apc, src, issues, code>>

\* What no step of a Check call reads or writes.
outside == <<rev, kept, other, bad, debugWriter, appvars>>

vars == <<c, c0, f, pc, fn, stmt, node, v, stack, outside>>

----------------------------------------------------------------------------
(* The AST.                                                                *)

\* ast.FuncDecl with a body, ast.FuncDecl without a body, any other declaration.
DeclKinds == {"FuncDecl", "FuncDeclNoBody", "GenDecl"}
\* Statements: ast.IfStmt; ForStmt, a compound statement that is not an if (for,
\* switch, ...); FuncLit, a statement that holds a function literal.
\* The statements that are not if statements; a BlockStmt is an else block.
OtherKinds == {"ForStmt", "FuncLit", "BlockStmt"}
\* Nodes that hold a statement list.
ListKinds == {"FuncDecl", "IfStmt", "ForStmt", "FuncLit", "BlockStmt"}

RECURSIVE Ancestors(_, _)
Ancestors(g, x) ==
    IF g[x].parent = 0 THEN {} ELSE {g[x].parent} \cup Ancestors(g, g[x].parent)

Children(g, p, slot) == {y \in 1..Len(g) : g[y].parent = p /\ g[y].slot = slot}

Subtree(g, x) == {y \in x..Len(g) : y = x \/ x \in Ancestors(g, y)}

Min(S) == CHOOSE x \in S : \A y \in S : x <= y
Max(S) == CHOOSE x \in S : \A y \in S : x >= y

LastDesc(g, x) == Max(Subtree(g, x))

\* The first child of p in the given field after child last, 0 if there is none.
NextChild(g, p, slot, last) ==
    LET S == {y \in Children(g, p, slot) : y > last}
    IN  IF S = {} THEN 0 ELSE Min(S)

\* ifStmt.Else: the node of the else clause, 0 for nil.
Else(g, x) == NextChild(g, x, "Else", 0)

\* The nodes that can follow the nodes of g in source order.
Extensions(g) ==
    LET m     == Len(g)
        open  == IF m = 0 THEN {} ELSE {m} \cup Ancestors(g, m)
        list  == {q \in open : g[q].kind \in ListKinds /\ Children(g, q, "Else") = {}}
        ifs   == {q \in open : g[q].kind = "IfStmt" /\ Children(g, q, "Else") = {}}
        decls == IF Cardinality({y \in 1..m : g[y].parent = 0}) < MaxDecls
                 THEN DeclKinds ELSE {}
        more  == Cardinality({y \in 1..m : g[y].kind \in OtherKinds}) < MaxOthers
    IN  {[kind |-> k, parent |-> 0, slot |-> "Decls"] : k \in decls}
        \cup {[kind |-> "IfStmt", parent |-> p, slot |-> s] : p \in list, s \in {"Body"}}
        \cup {[kind |-> "IfStmt", parent |-> p, slot |-> s] : p \in ifs, s \in {"Else"}}
        \cup {[kind |-> k, parent |-> p, slot |-> "Body"] :
                  k \in (IF more THEN {"ForStmt", "FuncLit"} ELSE {}), p \in list}
        \cup {[kind |-> k, parent |-> p, slot |-> "Else"] :
                  k \in (IF more THEN {"BlockStmt"} ELSE {}), p \in ifs}

RECURSIVE FilesOfLen(_)
FilesOfLen(k) ==
    IF k = 0 THEN {<< >>}
    ELSE UNION {{Append(g, r) : r \in Extensions(g)} : g \in FilesOfLen(k - 1)}

\* No further node: the file ends here.
NoNode == [kind |-> "None", parent |-> 0, slot |-> "None"]

\* The file g followed by node r, if any.
Extend(g, r) == IF r = NoNode THEN g ELSE Append(g, r)

\* The parsed files Check is called with are the files of at most MaxNodes
\* nodes: a file of fewer than MaxNodes nodes, followed by one more node or not.
FilePrefixes == UNION {FilesOfLen(k) : k \in 0..(MaxNodes - 1)}

\* The same for the files a Checker that has checked a file already is called with.
RecheckPrefixes == UNION {FilesOfLen(k) : k \in 0..(MaxRecheckNodes - 1)}

\* The nodes that can follow the nodes of g in a file whose declarations are
\* functions with bodies and whose statements are if statements.
PlainExtensions(g) == {e \in Extensions(g) : e.kind \in {"FuncDecl", "IfStmt"}}

RECURSIVE PlainFilesOfLen(_)
PlainFilesOfLen(k) ==
    IF k = 0 THEN {<< >>}
    ELSE UNION {{Append(g, r) : r \in PlainExtensions(g)} : g \in PlainFilesOfLen(k - 1)}

\* The files of a Checker whose calls are compared are such files of at most
\* MaxKeptNodes nodes.
PlainFilePrefixes == UNION {PlainFilesOfLen(k) : k \in 0..(MaxKeptNodes - 1)}

\* The files of one function whose body is one if statement of k nodes.
RECURSIVE IfFilesOfLen(_)
IfFilesOfLen(k) ==
    IF k = 1
    THEN {<<[kind |-> "FuncDecl", parent |-> 0, slot |-> "Decls"],
            [kind |-> "IfStmt", parent |-> 1, slot |-> "Body"]>>}
    ELSE UNION {{Append(g, r) : r \in {e \in Extensions(g) : e.parent > 1}} :
                   g \in IfFilesOfLen(k - 1)}

\* The if statements checkIf is called with, each in a function of its own, are
\* those of at most MaxIfNodes nodes: one of fewer nodes, followed by one more
\* node or not.
IfFilePrefixes == UNION {IfFilesOfLen(k) : k \in 1..(MaxIfNodes - 1)}

----------------------------------------------------------------------------
(* Checker and visitor values.                                             *)

NoVisitor == [complexity |-> 0, nesting |-> 0, elseifs |-> {}]

\* newVisitor for a Checker that keeps one visitor and uses it again.
newVisitorReused == v

newVisitor == [complexity |-> 0, nesting |-> 0, elseifs |-> {}]

\* A text is the sequence of its parts. The position prefix file:line:col is
\* one part, the position of the node printed.
errformat(pos, msg) == <<ToString(pos), ": ">> \o msg

\* p.Fprint(b, fset, cond): the condition is printed as the position of the if
\* statement it belongs to; one the printer fails on leaves b empty.
Fprint(cond) ==
    IF cond \in bad
    THEN [err |-> "go/printer: unsupported node type", text |-> ""]
    ELSE [err |-> "", text |-> ToString(cond)]

makeMessage(pos, complexity, cond) ==
    errformat(pos, <<"if ", Fprint(cond).text, " is nested (complexity: ",
                     ToString(complexity), ")">>)

\* fmt.Sprintf: the pieces of the format, each verb replaced by the next value.
RECURSIVE Sprintf(_, _)
Sprintf(format, a) ==
    IF format = << >> THEN << >>
    ELSE IF Head(format) = "%v" /\ a # << >>
         THEN <<Head(a)>> \o Sprintf(Tail(format), Tail(a))
         ELSE <<Head(format)>> \o Sprintf(Tail(format), a)

\* The writer DebugMode sets: w tells whether it is one (not nil); nothing has
\* been written to it.
Writer(w) == [set |-> w, written |-> << >>]

\* Checker.debug without the test for a writer.
Checker_debugUnguarded(w, format, a) ==
    [w EXCEPT !.written = Append(@, Sprintf(format, a))]

\* Checker.debug: fmt.Fprintf to the writer, if there is one.
Checker_debug(w, format, a) ==
    IF w.set
    THEN [w EXCEPT !.written = Append(@, Sprintf(format, a))]
    ELSE w

\* The debug call of makeMessage, made when p.Fprint returns an error.
makeMessageDebug(w, cond) ==
    IF Fprint(cond).err # ""
    THEN Checker_debug(w, <<"failed to convert condition into string: ", "%v">>,
                       <<Fprint(cond).err>>)
    ELSE w

\* What checkIf does to the writer: makeMessage is called for an Issue only.
checkIfDebug(chk, w, x, vis) ==
    IF vis.complexity < chk.MinComplexity
    THEN w
    ELSE makeMessageDebug(w, x)

Issue(x, complexity) ==
    [Pos |-> x, Complexity |-> complexity, Message |-> makeMessage(x, complexity, x)]

\* checkIfReport with the threshold test off by one (<= for <).
checkIfReportStrict(chk, x, vis) ==
    IF vis.complexity <= chk.MinComplexity
    THEN chk
    ELSE [chk EXCEPT !.issues = Append(@, Issue(x, vis.complexity))]

\* checkIfReport that appends no Issue when the condition fails to print.
checkIfReportPrinted(chk, x, vis) ==
    IF vis.complexity < chk.MinComplexity \/ Fprint(x).err # ""
    THEN chk
    ELSE [chk EXCEPT !.issues = Append(@, Issue(x, vis.complexity))]

\* checkIfReport that puts the new Issue ahead of the issues found so far.
checkIfReportPrepend(chk, x, vis) ==
    IF vis.complexity < chk.MinComplexity
    THEN chk
    ELSE [chk EXCEPT !.issues = <<Issue(x, vis.complexity)>> \o @]

\* The tail of checkIf: the threshold test and the append.
checkIfReport(chk, x, vis) ==
    IF vis.complexity < chk.MinComplexity
    THEN chk
    ELSE [chk EXCEPT !.issues = Append(@, Issue(x, vis.complexity))]

\* InspectDescend for a callback that does not look below the statement it is given.
InspectDirectOnly(g, root, x) == 0

\* InspectDescend for a callback that returns false on a function literal.
InspectSkipFuncLit(g, root, x) ==
    LET y == IF g[x].kind = "FuncLit" THEN LastDesc(g, x) + 1 ELSE x + 1
    IN  IF y \in Subtree(g, root) THEN y ELSE 0

\* return true in an ast.Inspect callback: the next node of the traversal of
\* the subtree of root is the next node in source order, 0 when it is over.
InspectDescend(g, root, x) ==
    IF x + 1 \in Subtree(g, root) THEN x + 1 ELSE 0

\* InspectSkip for a callback that returns true after checkIf.
InspectSkipDescending(g, root, x) ==
    IF x + 1 \in Subtree(g, root) THEN x + 1 ELSE 0

\* return false: the traversal skips the children of x.
InspectSkip(g, root, x) ==
    IF LastDesc(g, x) + 1 \in Subtree(g, root) THEN LastDesc(g, x) + 1 ELSE 0

----------------------------------------------------------------------------
(* Check, checkFunc, checkIf.                                              *)

\* The two revisions of visitor.Visit.
NestifGo == "nestif.go"
Part002 == "part_002"
Revisions == {NestifGo, Part002}

\* No second invocation of Check.
NoInvocation ==
    [f |-> << >>, pc |-> "none", fn |-> 0, stmt |-> 0, node |-> 0,
     v |-> NoVisitor, stack |-> << >>, issues |-> << >>]

\* One goroutine uses the Checker, and no call of it is remembered.
Sequential ==
    /\ kept = << >>
    /\ other = NoInvocation

\* The zero value of c.debugWriter: no writer.
NoWriter == [set |-> FALSE, written |-> << >>]

\* Every condition prints, and DebugMode has not been called.
NoDebug ==
    /\ bad = {}
    /\ debugWriter = NoWriter

\* No file has been read.
NoSource == [err |-> "none", lines |-> << >>]

\* The zero value of app.
NoApp ==
    [verbose |-> FALSE, outJSON |-> FALSE, minComplexity |-> 0, top |-> 0,
     excludeDirs |-> << >>, excludePatterns |-> << >>, stdout |-> << >>, stderr |-> << >>]

\* The Checker is used as a package: no app runs.
NoAppRun ==
    /\ app = NoApp
    /\ args = << >>
    /\ arg = 0
    /\ apc = "none"
    /\ src = NoSource
    /\ issues = << >>
    /\ code = 0

Init ==
    /\ c \in [MinComplexity : 0..MaxMinComplexity, issues : {<< >>}]
    /\ c0 = [MinComplexity |-> 0, issues |-> << >>]
    /\ f = << >>
    /\ pc = "new"
    /\ fn = 0
    /\ stmt = 0
    /\ node = 0
    /\ v = NoVisitor
    /\ stack = << >>
    /\ rev = NestifGo
    /\ Sequential
    /\ NoDebug
    /\ NoAppRun

\* CheckCall without the refresh of c.issues.
CheckCallNoRefresh(g, r) ==
    /\ pc \in {"new", "returned"}
    /\ f' = Extend(g, r)
    /\ c' = c
    /\ c0' = c0
    /\ pc' = "Inspect"
    /\ fn' = 0
    /\ stmt' = 0
    /\ UNCHANGED <<node, v, stack>>

\* Check is called with the parsed file g followed by node r: c.issues is refreshed.
CheckCall(g, r) ==
    /\ pc \in {"new", "returned"}
    /\ f' = Extend(g, r)
    /\ c' = [c EXCEPT !.issues = << >>]
    /\ c0' = [c0 EXCEPT !.issues = << >>]
    /\ pc' = "Inspect"
    /\ fn' = 0
    /\ stmt' = 0
    /\ UNCHANGED <<node, v, stack>>

\* Check is called with a parsed file.
Check ==
    /\ \E g \in (IF pc = "new" THEN FilePrefixes ELSE RecheckPrefixes) :
          \E r \in Extensions(g) \cup {NoNode} : CheckCall(g, r)
    /\ UNCHANGED outside

\* The call that has just returned, as history: its file, what it returned,
\* what the Checker with MinComplexity = 0 returned, whether a call on another
\* file has followed it, and whether the Checker had a debug writer.
Call ==
    [file |-> f, issues |-> c.issues, issues0 |-> c0.issues, since |-> FALSE,
     debug |-> debugWriter.set]

\* The history after a call on file g: the remembered call is kept, or the
\* call that has just returned is remembered in its place.
Remember(keep, g) ==
    IF pc = "returned" /\ keep THEN <<Call>>
    ELSE IF kept = << >> THEN kept
    ELSE <<[kept[1] EXCEPT !.since = @ \/ g # kept[1].file]>>

\* Check is called with a parsed file, on a Checker whose calls are compared.
CheckAgain ==
    /\ \E g \in PlainFilePrefixes :
          \E r \in PlainExtensions(g) \cup {NoNode} :
              /\ CheckCall(g, r)
              /\ \E keep \in BOOLEAN : kept' = Remember(keep, Extend(g, r))
    /\ UNCHANGED <<rev, other, bad, debugWriter, appvars>>

\* The callback of ast.Inspect(f, ...) on a node that is not a FuncDecl with a body.
InspectNotFunc ==
    /\ pc = "Inspect"
    /\ NextChild(f, 0, "Decls", fn) # 0
    /\ f[NextChild(f, 0, "Decls", fn)].kind # "FuncDecl"
    /\ fn' = NextChild(f, 0, "Decls", fn)
    /\ UNCHANGED <<outside, c, c0, f, pc, stmt, node, v, stack>>

\* The callback on a FuncDecl with a body: the range loop starts.
InspectFuncDecl ==
    /\ pc = "Inspect"
    /\ NextChild(f, 0, "Decls", fn) # 0
    /\ f[NextChild(f, 0, "Decls", fn)].kind = "FuncDecl"
    /\ fn' = NextChild(f, 0, "Decls", fn)
    /\ stmt' = 0
    /\ pc' = "range"
    /\ UNCHANGED <<outside, c, c0, f, node, v, stack>>

\* ast.Inspect(f, ...) is over: Check returns c.issues.
CheckReturn ==
    /\ pc = "Inspect"
    /\ NextChild(f, 0, "Decls", fn) = 0
    /\ pc' = "returned"
    /\ UNCHANGED <<outside, c, c0, f, fn, stmt, node, v, stack>>

\* One iteration of the range loop: checkFunc(&stmt, fset) starts ast.Inspect on the statement.
checkFunc ==
    /\ pc = "range"
    /\ NextChild(f, fn, "Body", stmt) # 0
    /\ stmt' = NextChild(f, fn, "Body", stmt)
    /\ node' = NextChild(f, fn, "Body", stmt)
    /\ pc' = "checkFunc"
    /\ UNCHANGED <<outside, c, c0, f, fn, v, stack>>

\* The range loop is over: the callback of Check returns true.
RangeDone ==
    /\ pc = "range"
    /\ NextChild(f, fn, "Body", stmt) = 0
    /\ pc' = "Inspect"
    /\ UNCHANGED <<outside, c, c0, f, fn, stmt, node, v, stack>>

\* The callback of checkFunc on a node that is not an if statement: return true.
InspectStmt ==
    /\ pc = "checkFunc"
    /\ node # 0
    /\ f[node].kind # "IfStmt"
    /\ node' = InspectDescend(f, stmt, node)
    /\ UNCHANGED <<outside, c, c0, f, pc, fn, stmt, v, stack>>

\* The callback of checkFunc on an if statement: checkIf makes a visitor and walks.
checkIf ==
    /\ pc = "checkFunc"
    /\ node # 0
    /\ f[node].kind = "IfStmt"
    /\ v' = newVisitor
    /\ stack' = << >>
    /\ pc' = "Walk"
    /\ UNCHANGED <<outside, c, c0, f, fn, stmt, node>>

\* ast.Walk(v, stmt) has returned: the threshold test, the append, return false.
checkIfEnd ==
    /\ pc = "checkIf"
    /\ c' = checkIfReport(c, node, v)
    /\ c0' = checkIfReport(c0, node, v)
    /\ debugWriter' = checkIfDebug(c, debugWriter, node, v)
    /\ node' = InspectSkip(f, stmt, node)
    /\ pc' = "checkFunc"
    /\ UNCHANGED <<rev, kept, other, bad, appvars, f, fn, stmt, v, stack>>

\* ast.Inspect on the statement is over: checkFunc returns.
checkFuncReturn ==
    /\ pc = "checkFunc"
    /\ node = 0
    /\ pc' = "range"
    /\ UNCHANGED <<outside, c, c0, f, fn, stmt, node, v, stack>>

----------------------------------------------------------------------------
(* ast.Walk and visitor.Visit.  A frame of the stack is one active         *)
(* ast.Walk(v, x): the node x, the field of x whose children are being     *)
(* walked, the last child walked, and the value of v.nesting at the call.  *)

Frame(x, nesting) == [node |-> x, at |-> "Body", last |-> 0, nesting0 |-> nesting]

Top == stack[Len(stack)]

\* The node ast.Walk calls v.Visit with next, 0 if the innermost call has no more.
ToVisit ==
    IF stack = << >> THEN node
    ELSE NextChild(f, Top.node, Top.at, Top.last)

\* The innermost call returns: its frame is popped and the caller moves on.
Pop ==
    LET s == SubSeq(stack, 1, Len(stack) - 1)
    IN  IF s = << >> THEN s
        ELSE [s EXCEPT ![Len(s)].last = Top.node]

\* VisitEnter with the increment ahead of the charge.
VisitEnterSwapped(vis) ==
    [vis EXCEPT !.complexity = @ + vis.nesting + 1, !.nesting = @ + 1]

\* src/nestif.go, Visit on an if statement: the charge and the increment.
VisitEnter(vis) ==
    [vis EXCEPT !.complexity = @ + vis.nesting, !.nesting = @ + 1]

\* VisitLeave that decrements twice.
VisitLeaveTwice(vis) ==
    [vis EXCEPT !.nesting = @ - 2]

\* src/nestif.go, Visit on an if statement: the decrement before return nil.
VisitLeave(vis) ==
    [vis EXCEPT !.nesting = @ - 1]

\* Visit on a node that is not an if statement returns v: ast.Walk walks its children.
VisitOther ==
    /\ pc = "Walk"
    /\ ToVisit # 0
    /\ f[ToVisit].kind # "IfStmt"
    /\ stack' = Append(stack, Frame(ToVisit, v.nesting))
    /\ UNCHANGED <<outside, c, c0, f, pc, fn, stmt, node, v>>

\* ast.Walk has walked the children of a node that is not an if statement.
WalkReturn ==
    /\ pc = "Walk"
    /\ stack # << >>
    /\ f[Top.node].kind # "IfStmt"
    /\ ToVisit = 0
    /\ stack' = Pop
    /\ UNCHANGED <<outside, c, c0, f, pc, fn, stmt, node, v>>

\* src/nestif.go: Visit on an if statement, up to ast.Walk(v, ifStmt.Body).
Visit ==
    /\ rev = NestifGo
    /\ pc = "Walk"
    /\ ToVisit # 0
    /\ f[ToVisit].kind = "IfStmt"
    /\ v' = VisitEnter(v)
    /\ stack' = Append(stack, Frame(ToVisit, v.nesting))
    /\ UNCHANGED <<outside, c, c0, f, pc, fn, stmt, node>>

\* VisitElse that charges 1 for an else block.
VisitElseCharged ==
    /\ rev = NestifGo
    /\ pc = "Walk"
    /\ stack # << >>
    /\ f[Top.node].kind = "IfStmt"
    /\ Top.at = "Body"
    /\ ToVisit = 0
    /\ Else(f, Top.node) # 0
    /\ v' = IF f[Else(f, Top.node)].kind = "BlockStmt"
            THEN [v EXCEPT !.complexity = @ + 1] ELSE v
    /\ stack' = [stack EXCEPT ![Len(stack)].at = "Else", ![Len(stack)].last = 0]
    /\ UNCHANGED <<outside, c, c0, f, pc, fn, stmt, node>>

\* src/nestif.go: the body is walked and ifStmt.Else != nil: ast.Walk(v, ifStmt.Else).
VisitElse ==
    /\ rev = NestifGo
    /\ pc = "Walk"
    /\ stack # << >>
    /\ f[Top.node].kind = "IfStmt"
    /\ Top.at = "Body"
    /\ ToVisit = 0
    /\ Else(f, Top.node) # 0
    /\ stack' = [stack EXCEPT ![Len(stack)].at = "Else", ![Len(stack)].last = 0]
    /\ UNCHANGED <<outside, c, c0, f, pc, fn, stmt, node, v>>

\* src/nestif.go: the body and the else clause are walked: v.nesting--, return nil.
VisitReturn ==
    /\ rev = NestifGo
    /\ pc = "Walk"
    /\ stack # << >>
    /\ f[Top.node].kind = "IfStmt"
    /\ ToVisit = 0
    /\ Top.at = "Body" => Else(f, Top.node) = 0
    /\ v' = VisitLeave(v)
    /\ stack' = Pop
    /\ pc' = IF Len(stack) = 1 THEN "checkIf" ELSE "Walk"
    /\ UNCHANGED <<outside, c, c0, f, fn, stmt, node>>

----------------------------------------------------------------------------
(* src/unnamed/part_002: visitor.Visit with the elseifs map.               *)

\* incComplexity without the else-if case.
incComplexityNested(vis, x) ==
    [vis EXCEPT !.complexity = @ + vis.nesting]

\* incComplexity: an else-if is charged 1, any other if the nesting level.
incComplexity(vis, x) ==
    IF x \in vis.elseifs
    THEN [vis EXCEPT !.complexity = @ + 1]
    ELSE [vis EXCEPT !.complexity = @ + vis.nesting]

\* VisitBody that leaves v.nesting alone on an else-if.
VisitBodyFlatElseIf(vis, x) ==
    IF x \in vis.elseifs
    THEN incComplexity(vis, x)
    ELSE [incComplexity(vis, x) EXCEPT !.nesting = @ + 1]

\* VisitBody with v.nesting++ ahead of the charge.
VisitBodyChargeAfter(vis, x) ==
    incComplexity([vis EXCEPT !.nesting = @ + 1], x)

\* Visit on an if statement, up to ast.Walk(v, ifStmt.Body): the charge, v.nesting++.
VisitBody(vis, x) ==
    [incComplexity(vis, x) EXCEPT !.nesting = @ + 1]

\* VisitElseBlock without the v.nesting-- that follows the body.
VisitElseBlockDeep(vis) ==
    [vis EXCEPT !.complexity = @ + 1, !.nesting = @ + 1]

\* v.nesting-- after the body, then the else block: v.complexity++, v.nesting++.
VisitElseBlock(vis) ==
    LET w == [vis EXCEPT !.nesting = @ - 1]
    IN  [w EXCEPT !.complexity = @ + 1, !.nesting = @ + 1]

\* v.nesting-- after the body, then the else-if: v.elseifs[ifStmt.Else] = true.
VisitElseIf(vis, e) ==
    LET w == [vis EXCEPT !.nesting = @ - 1]
    IN  [w EXCEPT !.elseifs = @ \cup {e}]

\* VisitEnd that forgets the v.nesting-- it still owes.
VisitEndKept(vis, g, fr) == vis

\* What is left of Visit once the last ast.Walk call of it has returned:
\* v.nesting-- after the body (no else clause) or after the else block.
VisitEnd(vis, g, fr) ==
    IF fr.at = "Body" \/ g[Else(g, fr.node)].kind = "BlockStmt"
    THEN [vis EXCEPT !.nesting = @ - 1]
    ELSE vis

\* part_002: Visit on an if statement, up to ast.Walk(v, ifStmt.Body).
VisitElseAware ==
    /\ rev = Part002
    /\ pc = "Walk"
    /\ ToVisit # 0
    /\ f[ToVisit].kind = "IfStmt"
    /\ v' = VisitBody(v, ToVisit)
    /\ stack' = Append(stack, Frame(ToVisit, v.nesting))
    /\ UNCHANGED <<outside, c, c0, f, pc, fn, stmt, node>>

\* part_002: the body is walked and ifStmt.Else is a block: ast.Walk(v, ifStmt.Else).
VisitElseBlockElseAware ==
    /\ rev = Part002
    /\ pc = "Walk"
    /\ stack # << >>
    /\ f[Top.node].kind = "IfStmt"
    /\ Top.at = "Body"
    /\ ToVisit = 0
    /\ Else(f, Top.node) # 0
    /\ f[Else(f, Top.node)].kind = "BlockStmt"
    /\ v' = VisitElseBlock(v)
    /\ stack' = [stack EXCEPT ![Len(stack)].at = "Else", ![Len(stack)].last = 0]
    /\ UNCHANGED <<outside, c, c0, f, pc, fn, stmt, node>>

\* part_002: the body is walked and ifStmt.Else is an if: ast.Walk(v, ifStmt.Else).
VisitElseIfElseAware ==
    /\ rev = Part002
    /\ pc = "Walk"
    /\ stack # << >>
    /\ f[Top.node].kind = "IfStmt"
    /\ Top.at = "Body"
    /\ ToVisit = 0
    /\ Else(f, Top.node) # 0
    /\ f[Else(f, Top.node)].kind = "IfStmt"
    /\ v' = VisitElseIf(v, Else(f, Top.node))
    /\ stack' = [stack EXCEPT ![Len(stack)].at = "Else", ![Len(stack)].last = 0]
    /\ UNCHANGED <<outside, c, c0, f, pc, fn, stmt, node>>

\* part_002: the body and the else clause, if any, are walked: return nil.
VisitReturnElseAware ==
    /\ rev = Part002
    /\ pc = "Walk"
    /\ stack # << >>
    /\ f[Top.node].kind = "IfStmt"
    /\ ToVisit = 0
    /\ Top.at = "Body" => Else(f, Top.node) = 0
    /\ v' = VisitEnd(v, f, Top)
    /\ stack' = Pop
    /\ pc' = IF Len(stack) = 1 THEN "checkIf" ELSE "Walk"
    /\ UNCHANGED <<outside, c, c0, f, fn, stmt, node>>

----------------------------------------------------------------------------
(* The specifications.                                                     *)

CheckerNext ==
    \/ Check
    \/ InspectNotFunc
    \/ InspectFuncDecl
    \/ CheckReturn
    \/ checkFunc
    \/ RangeDone
    \/ InspectStmt
    \/ checkIf
    \/ checkIfEnd
    \/ checkFuncReturn
    \/ VisitOther
    \/ WalkReturn

\* Check with the scorer of src/nestif.go.
Next ==
    \/ CheckerNext
    \/ Visit
    \/ VisitElse
    \/ VisitReturn

Spec == Init /\ [][Next]_vars

\* One Checker, of either revision, called again and again.
InitRecheck ==
    /\ c \in [MinComplexity : 0..MaxMinComplexity, issues : {<< >>}]
    /\ c0 = [MinComplexity |-> 0, issues |-> << >>]
    /\ f = << >>
    /\ pc = "new"
    /\ fn = 0
    /\ stmt = 0
    /\ node = 0
    /\ v = NoVisitor
    /\ stack = << >>
    /\ rev \in Revisions
    /\ Sequential
    /\ NoDebug
    /\ NoAppRun

\* The files hold no statement that is not an if statement: the steps on such
\* statements and on else blocks are never enabled.
NextRecheck ==
    \/ CheckAgain
    \/ InspectFuncDecl
    \/ CheckReturn
    \/ checkFunc
    \/ RangeDone
    \/ checkIf
    \/ checkIfEnd
    \/ checkFuncReturn
    \/ Visit
    \/ VisitElse
    \/ VisitReturn
    \/ VisitElseAware
    \/ VisitElseIfElseAware
    \/ VisitReturnElseAware

SpecRecheck == InitRecheck /\ [][NextRecheck]_vars

\* A Checker whose debug writer comes and goes between its Check calls, and
\* files in which some conditions fail to print.
InitDebug ==
    /\ c \in [MinComplexity : 0..MaxMinComplexity, issues : {<< >>}]
    /\ c0 = [MinComplexity |-> 0, issues |-> << >>]
    /\ f = << >>
    /\ pc = "new"
    /\ fn = 0
    /\ stmt = 0
    /\ node = 0
    /\ v = NoVisitor
    /\ stack = << >>
    /\ rev \in Revisions
    /\ Sequential
    /\ bad \in SUBSET (2..MaxKeptNodes)
    /\ debugWriter = NoWriter
    /\ NoAppRun

\* DebugMode is called between two Check calls: with a writer or with nil in
\* part_002, where it takes the writer; in src/nestif.go the writer is os.Stderr.
DebugMode ==
    /\ pc \in {"new", "returned"}
    /\ \E w \in BOOLEAN :
          /\ rev = NestifGo => w
          /\ debugWriter' = Writer(w)
    /\ UNCHANGED <<checkervars, rev, kept, other, bad, appvars>>

\* Check is called as long as the writer holds fewer than MaxWritten texts.
CheckLogged ==
    /\ Len(debugWriter.written) < MaxWritten
    /\ CheckAgain

NextDebug ==
    \/ DebugMode
    \/ CheckLogged
    \/ InspectFuncDecl
    \/ CheckReturn
    \/ checkFunc
    \/ RangeDone
    \/ checkIf
    \/ checkIfEnd
    \/ checkFuncReturn
    \/ Visit
    \/ VisitElse
    \/ VisitReturn
    \/ VisitElseAware
    \/ VisitElseIfElseAware
    \/ VisitReturnElseAware

SpecDebug == InitDebug /\ [][NextDebug]_vars

\* The invocation of Check that runs, as the scheduler saves it: its locals,
\* and c.issues as it leaves it (what it returned, once it has returned).
Invocation ==
    [f |-> f, pc |-> pc, fn |-> fn, stmt |-> stmt, node |-> node,
     v |-> v, stack |-> stack, issues |-> c.issues]

\* The scheduler stops the goroutine that runs and resumes the other one.
Switch ==
    /\ other.pc # "none"
    /\ other' = Invocation
    /\ f' = other.f
    /\ pc' = other.pc
    /\ fn' = other.fn
    /\ stmt' = other.stmt
    /\ node' = other.node
    /\ v' = other.v
    /\ stack' = other.stack
    /\ UNCHANGED <<c, c0, rev, kept, bad, debugWriter, appvars>>

\* A goroutine calls Check once.
CheckOnce ==
    /\ pc = "new"
    /\ \E g \in PlainFilePrefixes :
          \E r \in PlainExtensions(g) \cup {NoNode} : CheckCall(g, r)
    /\ UNCHANGED outside

\* Two goroutines are about to call Check on the same Checker.
InitParallel ==
    /\ c \in [MinComplexity : 0..MaxMinComplexity, issues : {<< >>}]
    /\ c0 = [MinComplexity |-> 0, issues |-> << >>]
    /\ f = << >>
    /\ pc = "new"
    /\ fn = 0
    /\ stmt = 0
    /\ node = 0
    /\ v = NoVisitor
    /\ stack = << >>
    /\ rev = NestifGo
    /\ kept = << >>
    /\ other = [NoInvocation EXCEPT !.pc = "new"]
    /\ NoDebug
    /\ NoAppRun

\* The steps of the two invocations interleave.  Each step is taken as a
\* whole: the accesses to c.issues race, and every interleaving of the steps
\* is an execution the scheduler can produce.
NextParallel ==
    \/ CheckOnce
    \/ Switch
    \/ InspectFuncDecl
    \/ CheckReturn
    \/ checkFunc
    \/ RangeDone
    \/ checkIf
    \/ checkIfEnd
    \/ checkFuncReturn
    \/ Visit
    \/ VisitElse
    \/ VisitReturn

SpecParallel == InitParallel /\ [][NextParallel]_vars

\* checkFunc is about to hand the if statement that is the body of the only
\* function of the file to checkIf: the state Check is in after Check,
\* InspectFuncDecl and checkFunc on such a file.  The threshold plays no part
\* in the walk: the Checker is one that reports every score.
ScoreStart ==
    /\ c = [MinComplexity |-> 0, issues |-> << >>]
    /\ c0 = [MinComplexity |-> 0, issues |-> << >>]
    /\ \E g \in IfFilePrefixes :
          \E r \in {e \in Extensions(g) : e.parent > 1} \cup {NoNode} : f = Extend(g, r)
    /\ pc = "checkFunc"
    /\ fn = 1
    /\ stmt = 2
    /\ node = 2
    /\ v = NoVisitor
    /\ stack = << >>
    /\ Sequential
    /\ NoDebug
    /\ NoAppRun

InitScore == ScoreStart /\ rev = NestifGo

\* checkIf on one if statement, with the scorer of src/nestif.go.
NextScore ==
    \/ checkIf
    \/ checkIfEnd
    \/ VisitOther
    \/ WalkReturn
    \/ Visit
    \/ VisitElse
    \/ VisitReturn

SpecScore == InitScore /\ [][NextScore]_vars

\* checkIf on one if statement, with the scorer of src/unnamed/part_002.
NextScoreElseAware ==
    \/ checkIf
    \/ checkIfEnd
    \/ VisitOther
    \/ WalkReturn
    \/ VisitElseAware
    \/ VisitElseBlockElseAware
    \/ VisitElseIfElseAware
    \/ VisitReturnElseAware

InitScoreElseAware == ScoreStart /\ rev = Part002

SpecScoreElseAware == InitScoreElseAware /\ [][NextScoreElseAware]_vars

\* checkIf on one if statement, with either scorer.
InitScoreEither == ScoreStart /\ rev \in Revisions

NextScoreEither ==
    \/ checkIf
    \/ checkIfEnd
    \/ VisitOther
    \/ WalkReturn
    \/ Visit
    \/ VisitElse
    \/ VisitReturn
    \/ VisitElseAware
    \/ VisitElseBlockElseAware
    \/ VisitElseIfElseAware
    \/ VisitReturnElseAware

SpecScoreEither == InitScoreEither /\ [][NextScoreEither]_vars

\* The if statement src/nestif.go has scored and reported is handed, in the
\* same file, to the Checker built from src/unnamed/part_002: what the first
\* Checker reported is remembered, the second one starts with no issue.
ScoreAgain ==
    /\ rev = NestifGo
    /\ pc = "checkFunc"
    /\ node = 0
    /\ kept = << >>
    /\ kept' = <<Call>>
    /\ rev' = Part002
    /\ c' = [c EXCEPT !.issues = << >>]
    /\ c0' = [c0 EXCEPT !.issues = << >>]
    /\ node' = stmt
    /\ v' = NoVisitor
    /\ UNCHANGED <<f, pc, fn, stmt, stack, other, bad, debugWriter, appvars>>

InitScoreBoth == ScoreStart /\ rev = NestifGo

\* checkIf on one if statement, with the one scorer and then with the other.
NextScoreBoth ==
    \/ ScoreAgain
    \/ checkIf
    \/ checkIfEnd
    \/ VisitOther
    \/ WalkReturn
    \/ Visit
    \/ VisitElse
    \/ VisitReturn
    \/ VisitElseAware
    \/ VisitElseBlockElseAware
    \/ VisitElseIfElseAware
    \/ VisitReturnElseAware

SpecScoreBoth == InitScoreBoth /\ [][NextScoreBoth]_vars

----------------------------------------------------------------------------
(* Vocabulary of the properties.                                           *)

IsIf(g, x) == g[x].kind = "IfStmt"

\* An if statement that is the else clause of another if statement.
IsElseIf(g, x) == IsIf(g, x) /\ g[x].slot = "Else"

\* A block that is the else clause of an if statement.
IsElseBlock(g, x) == g[x].kind = "BlockStmt" /\ g[x].slot = "Else"

\* No if statement of the subtree of r has an else clause.
ElseFree(g, r) == \A y \in Subtree(g, r) : g[y].slot # "Else"

\* The sum, over the if statements nested in r, of the number of if statements
\* of the subtree of r that enclose them.
NestingSum(g, r) ==
    Cardinality({p \in Subtree(g, r) \X Subtree(g, r) :
                    /\ IsIf(g, p[1])
                    /\ IsIf(g, p[2])
                    /\ p[2] \in Ancestors(g, p[1])})

\* The subtree of r as the sequence of its nodes, parents counted from r.
TreeOf(g, r) ==
    [i \in 1..Cardinality(Subtree(g, r)) |->
        <<g[r + i - 1].kind, g[r + i - 1].slot,
          IF i = 1 THEN 0 ELSE g[r + i - 1].parent - r + 1>>]

\* if A {}
Lone == << <<"IfStmt", "Body", 0>> >>
\* if A { if B {} }
Nested1 == << <<"IfStmt", "Body", 0>>, <<"IfStmt", "Body", 1>> >>
\* if A { if B { if C {} } }
Nested2 == << <<"IfStmt", "Body", 0>>, <<"IfStmt", "Body", 1>>, <<"IfStmt", "Body", 2>> >>
\* if A { if B { if C {} }; if B { if C {} } }
Branched == << <<"IfStmt", "Body", 0>>, <<"IfStmt", "Body", 1>>, <<"IfStmt", "Body", 2>>,
               <<"IfStmt", "Body", 1>>, <<"IfStmt", "Body", 4>> >>
\* if b1 { if b2 {} else { if b3 {} } }
ElseNested == << <<"IfStmt", "Body", 0>>, <<"IfStmt", "Body", 1>>,
                 <<"BlockStmt", "Else", 2>>, <<"IfStmt", "Body", 3>> >>
\* if b1 { if b2 {} else if b3 { if b4 {} } }
ElseIfNested == << <<"IfStmt", "Body", 0>>, <<"IfStmt", "Body", 1>>,
                   <<"IfStmt", "Else", 2>>, <<"IfStmt", "Body", 3>> >>

\* The walk of the located if statement has returned and checkIf is about to
\* compare v.complexity with the threshold.
Walked == pc = "checkIf"

\* The frame of the active Visit call on node x.
FrameOf(x) == stack[CHOOSE i \in 1..Len(stack) : stack[i].node = x]

----------------------------------------------------------------------------
(* C1.  For every if statement whose subtree holds no else clause, the     *)
(* complexity computed by visitor.Visit of src/nestif.go is the sum, over  *)
(* the if statements nested in it (also through statements that are not   *)
(* if statements), of the number of if statements of the subtree that      *)
(* enclose them: 0 for a lone if, 1 for one nested if, 3 for two levels,   *)
(* 6 for two sibling nested ifs that hold one nested if each.              *)
C1_NestingSum ==
    (Walked /\ ElseFree(f, node)) =>
        /\ v.complexity = NestingSum(f, node)
        /\ TreeOf(f, node) = Lone => v.complexity = 0
        /\ TreeOf(f, node) = Nested1 => v.complexity = 1
        /\ TreeOf(f, node) = Nested2 => v.complexity = 3
        /\ TreeOf(f, node) = Branched => v.complexity = 6

C1_Witness ==
    Walked /\ TreeOf(f, node) = Branched /\ v.complexity = 6

----------------------------------------------------------------------------
\* The subtree of r is r followed by a chain of else-if branches with empty bodies.
IsElseIfChain(g, r) == \A y \in Subtree(g, r) \ {r} : IsElseIf(g, y)

\* e is the last else-if branch of the if / else-if chain that starts at r, and
\* its body is empty.
IsChainEnd(g, r, e) ==
    /\ IsElseIf(g, e)
    /\ e = LastDesc(g, r)
    /\ \A y \in (({e} \cup Ancestors(g, e)) \cap Subtree(g, r)) \ {r} : IsElseIf(g, y)

\* The running walk has walked the body of the if statement of the innermost
\* Visit call and is about to walk its else clause, a block.
EnteringElseBlock ==
    /\ pc = "Walk"
    /\ stack # << >>
    /\ IsIf(f, Top.node)
    /\ Top.at = "Body"
    /\ ToVisit = 0
    /\ Else(f, Top.node) # 0
    /\ f[Else(f, Top.node)].kind = "BlockStmt"

\* The same, the else clause being an if statement.
EnteringElseIf ==
    /\ pc = "Walk"
    /\ stack # << >>
    /\ IsIf(f, Top.node)
    /\ Top.at = "Body"
    /\ ToVisit = 0
    /\ Else(f, Top.node) # 0
    /\ IsIf(f, Else(f, Top.node))

\* The running walk is about to call Visit on a nested if statement that is a
\* member of a statement list.
VisitingNested ==
    /\ pc = "Walk"
    /\ stack # << >>
    /\ ToVisit # 0
    /\ IsIf(f, ToVisit)
    /\ f[ToVisit].slot = "Body"

(* C2.  part_002: every if statement reached as an else-if continuation    *)
(* adds exactly 1 to the score, whatever the nesting depth and the number  *)
(* of else-if branches before it; an if followed by a chain of k else-if   *)
(* branches with no further nesting scores k.                              *)
C2_ElseIfFlat ==
    [][/\ EnteringElseIf => v'.complexity = v.complexity
       /\ (pc = "Walk" /\ ToVisit # 0 /\ IsElseIf(f, ToVisit)) =>
              v'.complexity = v.complexity + 1
       /\ (Walked /\ IsElseIfChain(f, node)) =>
              v.complexity = Cardinality(Subtree(f, node)) - 1]_vars

C2_Witness ==
    /\ Walked
    /\ IsElseIfChain(f, node)
    /\ Cardinality(Subtree(f, node)) = 4
    /\ v.complexity = 3

(* C3.  src/nestif.go: one more else-if branch with an empty body at the    *)
(* end of an if / else-if chain adds exactly 1 to the complexity of the    *)
(* root of the chain.  The appended branch is the last node the walk of    *)
(* the root visits, so what it adds is what its Visit call adds.           *)
C3_ElseIfAddsOne ==
    [][(pc = "Walk" /\ ToVisit # 0 /\ IsChainEnd(f, node, ToVisit)) =>
           v'.complexity = v.complexity + 1]_vars

(* C4.  part_002: an else block adds exactly 1 to the score at any depth;   *)
(* an if statement directly inside an else block, or directly inside the   *)
(* body of an else-if branch, is charged what an if statement directly     *)
(* inside the body of the if that owns the else is charged.  Both          *)
(* if b1 { if b2 {} else { if b3 {} } } and                                *)
(* if b1 { if b2 {} else if b3 { if b4 {} } } score 4.                     *)
C4_ElseFlatSameCharge ==
    [][/\ EnteringElseBlock => v'.complexity = v.complexity + 1
       /\ (pc = "Walk" /\ ToVisit # 0 /\ IsElseBlock(f, ToVisit)) => v' = v
       /\ VisitingNested =>
              /\ IsIf(f, f[ToVisit].parent) =>
                     v'.complexity - v.complexity = FrameOf(f[ToVisit].parent).nesting0 + 1
              /\ IsElseBlock(f, f[ToVisit].parent) =>
                     v'.complexity - v.complexity =
                         FrameOf(f[f[ToVisit].parent].parent).nesting0 + 1
              /\ IsElseIf(f, f[ToVisit].parent) =>
                     FrameOf(f[ToVisit].parent).nesting0 =
                         FrameOf(f[f[ToVisit].parent].parent).nesting0
       /\ (Walked /\ TreeOf(f, node) = ElseNested) => v.complexity = 4
       /\ (Walked /\ TreeOf(f, node) = ElseIfNested) => v.complexity = 4]_vars

C4_Witness ==
    Walked /\ TreeOf(f, node) = ElseNested /\ v.complexity = 4

C6_Original ==
    [][(VisitingNested /\ IsElseIf(f, f[ToVisit].parent)) =>
           v'.complexity - v.complexity = FrameOf(f[ToVisit].parent).nesting0]_vars

(* C6, amended.  An if statement directly inside the body of an else-if     *)
(* branch is charged the nesting depth that was current when the else-if   *)
(* node was visited plus one; the else-if node is visited at the depth its *)
(* owner was visited at, so it adds no level beyond the one of its owner.  *)
C6_Amended ==
    [][(VisitingNested /\ IsElseIf(f, f[ToVisit].parent)) =>
           /\ v'.complexity - v.complexity = FrameOf(f[ToVisit].parent).nesting0 + 1
           /\ FrameOf(f[ToVisit].parent).nesting0 =
                  FrameOf(f[f[ToVisit].parent].parent).nesting0]_vars

C6_Witness ==
    /\ pc = "Walk"
    /\ stack # << >>
    /\ IsIf(f, Top.node)
    /\ f[Top.node].slot = "Body"
    /\ IsElseIf(f, f[Top.node].parent)
    /\ Top.at = "Body"
    /\ Top.last = 0
    /\ Top.nesting0 = FrameOf(f[Top.node].parent).nesting0 + 1
    /\ v.nesting = Top.nesting0 + 1

----------------------------------------------------------------------------
\* The source positions of the issues of a Checker.
Reported(chk) == {chk.issues[i].Pos : i \in 1..Len(chk.issues)}

\* The if statements of g that no other if statement encloses.
OutermostIfs(g) ==
    {x \in 1..Len(g) : IsIf(g, x) /\ \A a \in Ancestors(g, x) : ~IsIf(g, a)}

\* The declaration that holds node x.
DeclOf(g, x) == IF g[x].parent = 0 THEN x ELSE Min(Ancestors(g, x))

AtLeast(k, issue) == issue.Complexity >= k

(* C7.  checkIf reports an Issue for the located if statement if and only  *)
(* if its complexity is at least MinComplexity: a score equal to           *)
(* MinComplexity is reported, one below is not, and with MinComplexity = 0 *)
(* an if statement that scores 0 is reported.                              *)
C7_InclusiveThreshold ==
    [][Walked =>
           /\ node \notin Reported(c)
           /\ node \in Reported(c') <=> v.complexity >= c.MinComplexity
           /\ node \in Reported(c') =>
                  c'.issues[Len(c'.issues)].Complexity = v.complexity]_vars

C7_Witness ==
    /\ c.MinComplexity >= 1
    /\ Len(c.issues) >= 1
    /\ c.issues[Len(c.issues)].Complexity = c.MinComplexity
    /\ \E i \in 1..Len(c0.issues) : c0.issues[i].Complexity = c.MinComplexity - 1

(* C8.  Check with MinComplexity = k returns exactly the issues of Check    *)
(* with MinComplexity = 0 whose Complexity is at least k, in the same      *)
(* order and with the same position, complexity and message.               *)
C8_FilterOfZero ==
    pc = "returned" =>
        c.issues = SelectSeq(c0.issues, LAMBDA issue : AtLeast(c.MinComplexity, issue))

C8_Witness ==
    /\ pc = "returned"
    /\ c.MinComplexity >= 1
    /\ Len(c.issues) >= 1
    /\ Len(c0.issues) >= Len(c.issues) + 2

(* C9.  An if statement nested anywhere inside another if statement (in its *)
(* body, its else block or as its else-if) is never reported as an Issue   *)
(* of its own: no two reported issues are nested in one another.           *)
C9_NoNestedIssue ==
    /\ \A x \in Reported(c) : IsIf(f, x) /\ \A a \in Ancestors(f, x) : ~IsIf(f, a)
    /\ \A x, y \in Reported(c) : x # y => x \notin Subtree(f, y)
    /\ Cardinality(Reported(c)) = Len(c.issues)

C9_Witness ==
    /\ pc = "returned"
    /\ \E x \in Reported(c) :
          /\ \E y \in Subtree(f, x) : IsIf(f, y) /\ f[y].slot = "Body" /\ IsIf(f, f[y].parent)
          /\ \E y \in Subtree(f, x) : IsIf(f, y) /\ IsElseBlock(f, f[y].parent)

(* C10, as claimed.  Every Issue is for an if statement that is a direct   *)
(* member of the statement list of the body of a function declaration.     *)
C10_Original ==
    \A x \in Reported(c) : f[f[x].parent].kind = "FuncDecl"

(* C10, amended.  Every Issue is for an if statement of the body of a       *)
(* function declaration that no other if statement encloses; it is a       *)
(* direct member of the statement list of the body or sits inside other    *)
(* statements of the body that are not if statements (a for, a switch, a   *)
(* block, ...), and in both cases it is scored and reported as a root.     *)
C10_Amended ==
    /\ \A x \in Reported(c) : x \in OutermostIfs(f) /\ f[DeclOf(f, x)].kind = "FuncDecl"
    /\ (pc = "returned" /\ c.MinComplexity = 0) => Reported(c) = OutermostIfs(f)

C10_Witness ==
    /\ pc = "returned"
    /\ \E x \in Reported(c) : f[f[x].parent].kind = "ForStmt"
    /\ \E x \in Reported(c) : f[f[x].parent].kind = "FuncDecl"

----------------------------------------------------------------------------
\* Node x is written inside a function literal.
InFuncLit(g, x) == \E a \in Ancestors(g, x) : g[a].kind = "FuncLit"

C12_DocumentOrder ==
    /\ \A i, j \in 1..Len(c.issues) : i < j => c.issues[i].Pos < c.issues[j].Pos
    /\ \A i, j \in 1..Len(c0.issues) : i < j => c0.issues[i].Pos < c0.issues[j].Pos

C12_Witness ==
    /\ pc = "returned"
    /\ Len(c.issues) >= 3
    /\ DeclOf(f, c.issues[1].Pos) = DeclOf(f, c.issues[2].Pos)
    /\ DeclOf(f, c.issues[2].Pos) # DeclOf(f, c.issues[3].Pos)

----------------------------------------------------------------------------
(* C13.  Calling Check twice on the same Checker with the same parsed file, *)
(* after any earlier calls and with any calls on other files in between,   *)
(* returns equal issue lists; every call starts from an empty issue list,  *)
(* so every issue of a result is an if statement of the file of the call   *)
(* and no if statement is reported twice.                                  *)
C13_SameFileSameIssues ==
    /\ (pc = "returned" /\ kept # << >> /\ kept[1].file = f) =>
           /\ c.issues = kept[1].issues
           /\ c0.issues = kept[1].issues0
    /\ pc = "returned" =>
           /\ Reported(c0) = OutermostIfs(f)
           /\ Len(c0.issues) = Cardinality(OutermostIfs(f))
           /\ Reported(c) \subseteq OutermostIfs(f)
           /\ Len(c.issues) = Cardinality(Reported(c))

C13_Witness ==
    /\ pc = "returned"
    /\ kept # << >>
    /\ kept[1].file = f
    /\ kept[1].since
    /\ c.MinComplexity >= 1
    /\ Len(c.issues) >= 1
    /\ c.issues = kept[1].issues

(* C14.  The complexity of a located if statement depends only on its       *)
(* subtree: it is the complexity every if statement with the same subtree  *)
(* got earlier in the same file and in the file of an earlier call,        *)
(* whatever was checked before, and every located if statement is scored   *)
(* by a visitor that starts at complexity 0 and nesting 0.                 *)
C14_SubtreeOnly ==
    /\ (pc = "Walk" /\ stack = << >>) => (v.complexity = 0 /\ v.nesting = 0)
    /\ Walked =>
           /\ \A i \in 1..Len(c0.issues) :
                  TreeOf(f, c0.issues[i].Pos) = TreeOf(f, node) =>
                      c0.issues[i].Complexity = v.complexity
           /\ kept # << >> =>
                  \A i \in 1..Len(kept[1].issues0) :
                      TreeOf(kept[1].file, kept[1].issues0[i].Pos) = TreeOf(f, node) =>
                          kept[1].issues0[i].Complexity = v.complexity

C14_Witness ==
    /\ Walked
    /\ TreeOf(f, node) = Nested1
    /\ v.complexity = 1
    /\ kept # << >>
    /\ kept[1].since
    /\ \E i \in 1..Len(kept[1].issues0) :
          /\ TreeOf(kept[1].file, kept[1].issues0[i].Pos) = Nested1
          /\ kept[1].issues0[i].Complexity = 1

----------------------------------------------------------------------------
RECURSIVE SeqOf(_)
\* The elements of a set of positions in source order.
SeqOf(S) == IF S = {} THEN << >> ELSE <<Min(S)>> \o SeqOf(S \ {Min(S)})

\* The outermost if statements of the function bodies of g that score at least k.
RootsOf(g, k) ==
    {x \in OutermostIfs(g) : g[DeclOf(g, x)].kind = "FuncDecl" /\ NestingSum(g, x) >= k}

\* The issues of file g for a Checker with MinComplexity = k, src/nestif.go.
IssuesOf(g, k) ==
    [i \in 1..Cardinality(RootsOf(g, k)) |->
        Issue(SeqOf(RootsOf(g, k))[i], NestingSum(g, SeqOf(RootsOf(g, k))[i]))]

\* What a call returns when no other invocation runs on the Checker.
SequentialIssues == pc = "returned" => c.issues = IssuesOf(f, c.MinComplexity)

(* C15.  When two invocations of Check run concurrently on the same         *)
(* Checker for two different files, each returns exactly the issues of its *)
(* own file: none is lost and none belongs to the other file.              *)
C15_OwnIssues ==
    (pc = "returned" /\ other.pc = "returned" /\ f # other.f) =>
        /\ c.issues = IssuesOf(f, c.MinComplexity)
        /\ other.issues = IssuesOf(other.f, c.MinComplexity)

(* C16.  The score is a non-negative integer: at every step of the walk of *)
(* an if statement v.nesting >= 0 and v.complexity >= 0, no step of the    *)
(* walk lowers v.complexity, and every Issue.Complexity is >= 0; in both   *)
(* revisions of visitor.Visit.                                             *)
C16_NonNegative ==
    [][/\ v.nesting >= 0 /\ v'.nesting >= 0
       /\ v.complexity >= 0 /\ v'.complexity >= 0
       /\ pc = "Walk" => v'.complexity >= v.complexity
       /\ \A i \in 1..Len(c0'.issues) : c0'.issues[i].Complexity >= 0
       /\ \A i \in 1..Len(c'.issues) : c'.issues[i].Complexity >= 0]_vars

C16_Witness ==
    /\ rev = Part002
    /\ Len(c.issues) = 1
    /\ c.issues[1].Complexity = 4
    /\ TreeOf(f, c.issues[1].Pos) = ElseIfNested
    /\ v.nesting = 0

----------------------------------------------------------------------------
(* The command-line tool, cmd/nestif: the text of the files it reads.      *)

\* A line of a file is a sequence of pieces of text. Four pieces matter to
\* isGenerated: the words of the marker, a space, other text, and a run of text
\* as long as the largest token a bufio.Scanner accepts.
CodeGenerated == "// Code generated"
Space == " "
DoNotEdit == "DO NOT EDIT."
Text == "x"
LongText == "x..."

genHdr == <<CodeGenerated, Space>>
genFtr == <<Space, DoNotEdit>>

MaxScanTokenSize == 64 * 1024

\* len of a piece, in bytes.
PieceLen(t) ==
    CASE t = CodeGenerated -> 17
      [] t = Space -> 1
      [] t = DoNotEdit -> 12
      [] t = Text -> 1
      [] t = LongText -> MaxScanTokenSize

RECURSIVE len(_)
len(b) == IF b = << >> THEN 0 ELSE PieceLen(Head(b)) + len(Tail(b))

\* bytes.HasPrefix and bytes.HasSuffix: no piece is a part of another one, so
\* that a line begins or ends with given pieces when its own first or last
\* pieces are these.
HasPrefix(b, prefix) ==
    /\ Len(b) >= Len(prefix)
    /\ SubSeq(b, 1, Len(prefix)) = prefix

HasSuffix(b, suffix) ==
    /\ Len(b) >= Len(suffix)
    /\ SubSeq(b, Len(b) - Len(suffix) + 1, Len(b)) = suffix

\* The test of isGenerated on one line.
isGeneratedLine(b) ==
    /\ HasPrefix(b, genHdr)
    /\ HasSuffix(b, genFtr)
    /\ len(b) >= len(genHdr) + len(genFtr)

\* sc.Scan() gives no line, and no later one, once a line does not fit the
\* buffer of the Scanner together with its end of line.
TooLong(b) == len(b) >= MaxScanTokenSize

RECURSIVE isGenerated(_)
isGenerated(lines) ==
    IF lines = << >> \/ TooLong(Head(lines))
    THEN FALSE
    ELSE isGeneratedLine(Head(lines)) \/ isGenerated(Tail(lines))

\* f.Comments of the parsed file: the lines that are // comments.
Comments(lines) == SelectSeq(lines, LAMBDA b : b # << >> /\ Head(b) = CodeGenerated)

\* The lines the files are made of: the marker with nothing between its two
\* parts, the marker whose two parts share their space, a line of code, and a
\* line too long for the Scanner.
SampleLines ==
    { <<CodeGenerated, Space, Space, DoNotEdit>>,
      <<CodeGenerated, Space, DoNotEdit>>,
      <<Text>>,
      <<LongText>> }

RECURSIVE LinesOfLen(_)
LinesOfLen(k) ==
    IF k = 0 THEN {<< >>}
    ELSE {Append(l, b) : l \in LinesOfLen(k - 1), b \in SampleLines}

\* What ioutil.ReadFile and parser.ParseFile make of a file: an error of the
\* one or of the other, or the lines of a file that parses.
Sources ==
    {[err |-> "read", lines |-> << >>], [err |-> "parse", lines |-> << >>]}
        \cup {[err |-> "none", lines |-> l] : l \in UNION {LinesOfLen(k) : k \in 0..MaxLines}}

----------------------------------------------------------------------------
(* The command-line tool: flags, arguments and pure parts of run.          *)

\* The regular expressions given with --exclude-dirs: one that regexp.Compile
\* rejects (a group that is never closed) and one that it accepts, which
\* matches the paths with an "a" in them.
BadPattern == "("
Patterns == {BadPattern, "a"}

\* The directories of the arguments: one that the pattern "a" matches and one
\* that it does not match.
Dirs == {"a", "c"}

\* p.MatchString(dir) for the compiled patterns and the directories above.
MatchString(p, dir) == p = dir

\* The index of the first of the patterns that fails to compile, 0 when all of
\* them compile: the loop of check stops there.
FirstBad(dirs) ==
    IF \E i \in 1..Len(dirs) : dirs[i] = BadPattern
    THEN Min({i \in 1..Len(dirs) : dirs[i] = BadPattern})
    ELSE 0

\* The first loop of checkFile and of checkDir.
Excluded(patterns, dir) == \E i \in 1..Len(patterns) : MatchString(patterns[i], dir)

\* The arguments, once allPackagesInFS has replaced every x/... by directories:
\* a file that exists, a directory, or anything else, which is taken for the
\* import path of a package. dir is the directory of the file, the directory
\* itself, or the directory that holds the package.
Args == [kind : {"file", "dir", "pkg"}, dir : Dirs]

RECURSIVE ArgsOfLen(_)
ArgsOfLen(k) ==
    IF k = 0 THEN {<< >>}
    ELSE {Append(l, x) : l \in ArgsOfLen(k - 1), x \in Args}

OfKind(l, kind) == SelectSeq(l, LAMBDA x : x.kind = kind)

\* The three lists check sorts the arguments into, in the order of its loops.
Order(l) == OfKind(l, "file") \o OfKind(l, "dir") \o OfKind(l, "pkg")

\* What build.ImportDir and build.Import make of a directory or an import path:
\* an error, no Go file (a NoGoError), a package whose Dir is ".", or a package
\* of one Go file.
Imports == {"error", "nogo", "dot", "ok"}

\* run that returns 0 whatever check returned.
runCodeZero(err) == 0

\* The value run returns, err telling whether check returned an error.
runCode(err) == IF err THEN 1 ELSE 0

\* The test that ends the loop of write, one issue late.
writeStopLate(i, top) == i > top

\* The test that ends the loop of write (i counts from 0).
writeStop(i, top) == i >= top

\* The lines write prints in text mode for the issues from the i-th on.
RECURSIVE writeLines(_, _, _)
writeLines(l, i, top) ==
    IF l = << >> \/ writeStop(i, top)
    THEN << >>
    ELSE <<errformat(Head(l).Pos, Head(l).Message)>> \o writeLines(Tail(l), i + 1, top)

\* The line write prints with --json: the issues, marshalled.
writeJSON(l) == <<"json", l>>

\* The orders sort.Slice may leave the issues in: it is no stable sort, every
\* order in which no issue is followed by one of greater complexity can come out.
RECURSIVE Sorted(_, _)
Sorted(l, S) ==
    IF S = {}
    THEN {<< >>}
    ELSE LET top == {i \in S : \A j \in S : l[i].Complexity >= l[j].Complexity}
         IN  UNION {{<<l[i]>> \o rest : rest \in Sorted(l, S \ {i})} : i \in top}

\* The errors printed, as the texts that tell them apart.
ErrPattern(d) == <<"failed to parse exclude dir pattern: ", d>>
ErrRead == <<"read error">>
ErrParse == <<"parse error">>
ErrGenerated == <<" is a generated file">>
ErrImport == <<"import error">>

\* a.debug(err): what stdout holds after it.
debug(a, err) == IF a.verbose THEN [a EXCEPT !.stdout = Append(@, err)] ELSE a

----------------------------------------------------------------------------
(* The command-line tool: run, from the flags main has parsed.             *)

RECURSIVE PatternsOfLen(_)
PatternsOfLen(k) ==
    IF k = 0 THEN {<< >>}
    ELSE {Append(l, d) : l \in PatternsOfLen(k - 1), d \in Patterns}

\* main has made the app and parsed the flags into it; the Checker is the one
\* of part_002, whose DebugMode takes the writer check hands it.
InitApp ==
    /\ c = [MinComplexity |-> 0, issues |-> << >>]
    /\ c0 = [MinComplexity |-> 0, issues |-> << >>]
    /\ f = << >>
    /\ pc = "new"
    /\ fn = 0
    /\ stmt = 0
    /\ node = 0
    /\ v = NoVisitor
    /\ stack = << >>
    /\ rev = Part002
    /\ Sequential
    /\ NoDebug
    /\ app \in [verbose : BOOLEAN, outJSON : BOOLEAN, minComplexity : 0..MaxMin,
                top : (-1)..MaxTop,
                excludeDirs : UNION {PatternsOfLen(k) : k \in 0..MaxPatterns},
                excludePatterns : {<< >>}, stdout : {<< >>}, stderr : {<< >>}]
    /\ args \in UNION {ArgsOfLen(k) : k \in 0..MaxArgs}
    /\ arg = 0
    /\ apc = "new"
    /\ src = NoSource
    /\ issues = << >>
    /\ code = 0

\* The argument the loops of check have come to.
Cur == Order(args)[arg + 1]

\* run, when check returns an error: a pattern does not compile.
runError ==
    /\ apc = "new"
    /\ FirstBad(app.excludeDirs) # 0
    /\ app' = [app EXCEPT
                 !.excludePatterns = SubSeq(app.excludeDirs, 1, FirstBad(app.excludeDirs) - 1),
                 !.stderr = Append(@, ErrPattern(app.excludeDirs[FirstBad(app.excludeDirs)]))]
    /\ code' = runCode(TRUE)
    /\ apc' = "exited"
    /\ UNCHANGED <<checkervars, rev, kept, other, bad, debugWriter, args, arg, src, issues>>

\* check, up to its loops: the patterns compile, the Checker is made.
checkStart ==
    /\ apc = "new"
    /\ FirstBad(app.excludeDirs) = 0
    /\ app' = [app EXCEPT !.excludePatterns = app.excludeDirs]
    /\ c' = [MinComplexity |-> app.minComplexity, issues |-> << >>]
    /\ c0' = [MinComplexity |-> 0, issues |-> << >>]
    /\ apc' = "args"
    /\ debugWriter' = IF app.verbose THEN Writer(TRUE) ELSE debugWriter
    /\ UNCHANGED <<f, pc, fn, stmt, node, v, stack, rev, kept, other, bad, args, arg, src, issues, code>>

\* checkFile on a file in an excluded directory.
checkFileExcluded ==
    /\ apc = "args"
    /\ arg < Len(args)
    /\ Cur.kind = "file"
    /\ Excluded(app.excludePatterns, Cur.dir)
    /\ arg' = arg + 1
    /\ UNCHANGED <<checkervars, rev, kept, other, bad, debugWriter, app, args, apc, src, issues, code>>

\* checkFile, up to the file being read and parsed.
checkFileRead ==
    /\ apc = "args"
    /\ arg < Len(args)
    /\ Cur.kind = "file"
    /\ ~Excluded(app.excludePatterns, Cur.dir)
    /\ src' \in Sources
    /\ apc' = "checkFile"
    /\ UNCHANGED <<checkervars, rev, kept, other, bad, debugWriter, app, args, arg, issues, code>>

\* checkDir on an excluded directory.
checkDirExcluded ==
    /\ apc = "args"
    /\ arg < Len(args)
    /\ Cur.kind = "dir"
    /\ Excluded(app.excludePatterns, Cur.dir)
    /\ arg' = arg + 1
    /\ UNCHANGED <<checkervars, rev, kept, other, bad, debugWriter, app, args, apc, src, issues, code>>

\* checkDir on a directory with no file to check.
checkDir ==
    /\ apc = "args"
    /\ arg < Len(args)
    /\ Cur.kind = "dir"
    /\ ~Excluded(app.excludePatterns, Cur.dir)
    /\ \E imp \in Imports \ {"ok"} :
          app' = IF imp = "error" THEN debug(app, ErrImport) ELSE app
    /\ arg' = arg + 1
    /\ UNCHANGED <<checkervars, rev, kept, other, bad, debugWriter, args, apc, src, issues, code>>

\* checkDir and checkImportedPackage, up to the file of the package being read
\* and parsed by checkFile: the directory of the file is the one checkDir did
\* not find excluded.
checkDirFiles ==
    /\ apc = "args"
    /\ arg < Len(args)
    /\ Cur.kind = "dir"
    /\ ~Excluded(app.excludePatterns, Cur.dir)
    /\ src' \in Sources
    /\ apc' = "checkFile"
    /\ UNCHANGED <<checkervars, rev, kept, other, bad, debugWriter, app, args, arg, issues, code>>

\* checkPackage on an import path with no file to check: check prints the
\* error itself, verbose or not; and checkFile on the file of a package in an
\* excluded directory.
checkPackage ==
    /\ apc = "args"
    /\ arg < Len(args)
    /\ Cur.kind = "pkg"
    /\ \E imp \in Imports :
          /\ imp = "ok" => Excluded(app.excludePatterns, Cur.dir)
          /\ app' = IF imp = "error" THEN [app EXCEPT !.stdout = Append(@, ErrImport)] ELSE app
    /\ arg' = arg + 1
    /\ UNCHANGED <<checkervars, rev, kept, other, bad, debugWriter, args, apc, src, issues, code>>

\* checkPackage and checkImportedPackage, up to the file of the package being
\* read and parsed by checkFile.
checkPackageFiles ==
    /\ apc = "args"
    /\ arg < Len(args)
    /\ Cur.kind = "pkg"
    /\ ~Excluded(app.excludePatterns, Cur.dir)
    /\ src' \in Sources
    /\ apc' = "checkFile"
    /\ UNCHANGED <<checkervars, rev, kept, other, bad, debugWriter, app, args, arg, issues, code>>

\* The test of checkFile on the parsed file.
Generated(lines) == Len(Comments(lines)) > 0 /\ isGenerated(lines)

\* checkFile returns an error, which its caller hands to a.debug.
checkFileError ==
    /\ apc = "checkFile"
    /\ src.err # "none" \/ Generated(src.lines)
    /\ app' = debug(app, CASE src.err = "read" -> ErrRead
                           [] src.err = "parse" -> ErrParse
                           [] OTHER -> ErrGenerated)
    /\ arg' = arg + 1
    /\ src' = NoSource
    /\ apc' = "args"
    /\ UNCHANGED <<checkervars, rev, kept, other, bad, debugWriter, args, issues, code>>

\* The files the command-line tool parses: those of at most MaxKeptNodes nodes.
AppFiles == UNION {PlainFilesOfLen(k) : k \in 0..MaxKeptNodes}

\* checkFile calls checker.Check on the parsed file.
checkFileCheck ==
    /\ apc = "checkFile"
    /\ src.err = "none"
    /\ ~Generated(src.lines)
    /\ \E g \in AppFiles : CheckCall(g, NoNode)
    /\ src' = NoSource
    /\ apc' = "Check"
    /\ UNCHANGED <<rev, kept, other, bad, debugWriter, app, args, arg, issues, code>>

\* Check has returned: the caller of checkFile appends what it found.
checkFileReturn ==
    /\ apc = "Check"
    /\ pc = "returned"
    /\ issues' = issues \o c.issues
    /\ arg' = arg + 1
    /\ apc' = "args"
    /\ UNCHANGED <<checkervars, rev, kept, other, bad, debugWriter, app, args, src, code>>

\* run, once check has returned the issues: sort.Slice, write, return 0.
runWrite ==
    /\ apc = "args"
    /\ arg = Len(args)
    /\ \E s \in Sorted(issues, 1..Len(issues)) :
          /\ issues' = s
          /\ app' = [app EXCEPT !.stdout = IF app.outJSON
                                           THEN Append(@, writeJSON(s))
                                           ELSE @ \o writeLines(s, 0, app.top)]
    /\ code' = runCode(FALSE)
    /\ apc' = "exited"
    /\ UNCHANGED <<checkervars, rev, kept, other, bad, debugWriter, args, arg, src>>

NextApp ==
    \/ runError
    \/ checkStart
    \/ checkFileExcluded
    \/ checkFileRead
    \/ checkDirExcluded
    \/ checkDir
    \/ checkDirFiles
    \/ checkPackage
    \/ checkPackageFiles
    \/ checkFileError
    \/ checkFileCheck
    \/ checkFileReturn
    \/ runWrite
    \/ InspectFuncDecl
    \/ CheckReturn
    \/ checkFunc
    \/ RangeDone
    \/ checkIf
    \/ checkIfEnd
    \/ checkFuncReturn
    \/ VisitElseAware
    \/ VisitElseIfElseAware
    \/ VisitReturnElseAware

SpecApp == InitApp /\ [][NextApp]_vars

----------------------------------------------------------------------------
(* Properties of the command-line tool.                                    *)

\* run has returned 0 in text mode.
TextDone == apc = "exited" /\ code = 0 /\ ~app.outJSON

\* The lines of stdout that are no error: the lines written for issues.
IssueLines(out) ==
    SelectSeq(out, LAMBDA l : l \notin {ErrRead, ErrParse, ErrGenerated, ErrImport})

\* The line of the form file:line:col: if cond is nested (complexity: n), the
\* position prefix occurring once.
LineOf(is) ==
    <<ToString(is.Pos), ": ", "if ", ToString(is.Pos), " is nested (complexity: ",
      ToString(is.Complexity), ")">>

\* C17: every line the command-line tool writes in text mode for an issue has
\* the form file:line:col: if cond is nested (complexity: score), in which the
\* position prefix occurs exactly once.
C17_PrefixOnce ==
    TextDone =>
        \A i \in 1..Len(IssueLines(app.stdout)) :
            \E j \in 1..Len(issues) : IssueLines(app.stdout)[i] = LineOf(issues[j])

\* What the code writes instead: the position prefix, then the Message, which
\* begins with the same prefix.
PrefixTwice ==
    TextDone =>
        \A i \in 1..Len(IssueLines(app.stdout)) :
            \E j \in 1..Len(issues) :
                IssueLines(app.stdout)[i] = <<ToString(issues[j].Pos), ": ">> \o LineOf(issues[j])

\* The lines a step of run adds to stdout.
Printed == SubSeq(app.stdout', Len(app.stdout) + 1, Len(app.stdout'))

\* The number of issue lines for n issues.
TopOf(top, n) == Max({0, Min({top, n})})

SkippedNext ==
    /\ pc' = pc
    /\ c' = c
    /\ issues' = issues
    /\ arg' = arg + 1
    /\ apc' = "args"

\* The marker of generated code in a line: the words "// Code generated ",
\* any text, and the words " DO NOT EDIT." after them.
Marker(b) ==
    /\ HasPrefix(b, genHdr)
    /\ HasSuffix(b, genFtr)
    /\ len(b) >= len(genHdr) + len(genFtr)

\* C19: a file that contains a comment line beginning with the words
\* "// Code generated " and ending with " DO NOT EDIT." is skipped entirely by
\* checkFile: it contributes no issue whatever if statements it contains, and
\* the remaining arguments are still checked.
C19_GeneratedSkipped ==
    [][(/\ apc = "checkFile"
        /\ \E i \in 1..Len(src.lines) : Marker(src.lines[i]))
          => SkippedNext]_vars

\* What the code does: the file is skipped when no line up to the marker is of
\* 64 KiB or more, the Scanner of isGenerated giving up at such a line.
ScannedMarkerSkipped ==
    [][(/\ apc = "checkFile"
        /\ \E i \in 1..Len(src.lines) :
              /\ Marker(src.lines[i])
              /\ \A j \in 1..i : len(src.lines[j]) < MaxScanTokenSize)
          => SkippedNext]_vars

\* C20: run returns 1 if and only if some --exclude-dirs pattern fails to
\* compile, and then it writes only the error message and checks no file; in
\* every other case it returns 0.
C20_ExitCode ==
    apc = "exited" =>
        /\ code \in {0, 1}
        /\ code = 1 <=> \E i \in 1..Len(app.excludeDirs) : app.excludeDirs[i] = BadPattern
        /\ code = 1 =>
              /\ app.stdout = << >>
              /\ \E i \in 1..Len(app.excludeDirs) : app.stderr = <<ErrPattern(app.excludeDirs[i])>>
              /\ arg = 0
              /\ pc = "new"
              /\ issues = << >>

\* run has returned 1 although it was given arguments.
C20_Witness ==
    /\ apc = "exited"
    /\ code = 1
    /\ args # << >>

----------------------------------------------------------------------------
(* Properties of the two scorers.                                          *)

\* C23: the nesting counter is balanced: for every if node, v.nesting has the
\* same value when Visit returns as it had when Visit was called, through
\* then-blocks, else blocks and else-ifs alike, so that it is 0 again when the
\* walk of a root if finishes.
C23_NestingBalanced ==
    [][/\ (/\ stack # << >>
           /\ Len(stack') = Len(stack) - 1
           /\ IsIf(f, Top.node)) => v'.nesting = Top.nesting0
       /\ (pc = "Walk" /\ pc' = "checkIf") => v'.nesting = 0]_vars

\* The walk of if a { if b {} } else if c {} else {}, or of a larger if
\* statement with a nested if, an else-if and an else block, has finished.
C23_Witness ==
    /\ Walked
    /\ v.nesting = 0
    /\ \E x, y, z \in Subtree(f, node) :
          /\ IsIf(f, x) /\ f[x].slot = "Body" /\ x # node
          /\ IsElseIf(f, y)
          /\ IsElseBlock(f, z)

\* Both scorers have scored and reported the if statement.
ScoredByBoth ==
    /\ rev = Part002
    /\ kept # << >>
    /\ pc = "checkFunc"
    /\ node = 0

\* C24: the two scorers agree wherever else is absent: for every if statement
\* whose subtree holds no else clause at any level, Visit of src/nestif.go and
\* Visit of src/unnamed/part_002 compute the same complexity, so that they
\* differ only on if statements that hold an else block or an else-if.
C24_ScorersAgree ==
    /\ (ScoredByBoth /\ ElseFree(f, stmt)) =>
           /\ Len(c.issues) = 1
           /\ c.issues = kept[1].issues
    /\ (ScoredByBoth /\ c.issues # kept[1].issues) =>
           \E y \in Subtree(f, stmt) : IsElseIf(f, y) \/ IsElseBlock(f, y)

\* if a { if b { if c {} } } scored 3 by the one and by the other.
C24_Witness ==
    /\ ScoredByBoth
    /\ TreeOf(f, stmt) = Nested2
    /\ c.issues[1].Complexity = 3
    /\ kept[1].issues[1].Complexity = 3

\* The scorers do differ on some if statement with an else clause.
ScorersDiffer ==
    ScoredByBoth /\ c.issues[1].Complexity # kept[1].issues[1].Complexity

----------------------------------------------------------------------------
(* Properties of the debug channel.                                        *)

\* The text makeMessage hands to Checker.debug when p.Fprint fails.
FailedText ==
    <<"failed to convert condition into string: ", "go/printer: unsupported node type">>

\* The step is the tail of checkIf, and it appends an Issue.
Reporting == pc = "checkIf" /\ pc' = "checkFunc" /\ v.complexity >= c.MinComplexity

\* C21: the debug channel is a pure side channel: Checker.debug writes nothing
\* when no debug writer has been attached, writes exactly the formatted text
\* to the attached writer otherwise, and attaching a writer with DebugMode
\* never changes the list of issues returned by Check.
C21_SideChannel ==
    [][/\ (~debugWriter.set /\ pc \notin {"new", "returned"}) =>
              debugWriter' = debugWriter
       /\ (debugWriter.set /\ pc \notin {"new", "returned"}) =>
              /\ debugWriter'.set
              /\ debugWriter'.written =
                    IF Reporting /\ node \in bad
                    THEN Append(debugWriter.written, FailedText)
                    ELSE debugWriter.written
       /\ (/\ pc' = "returned"
           /\ kept' # << >>
           /\ kept'[1].file = f'
           /\ kept'[1].debug # debugWriter'.set) =>
              /\ c'.issues = kept'[1].issues
              /\ c0'.issues = kept'[1].issues0]_vars

\* A file was checked with no writer and is checked again with one: the
\* failure to print a condition was written, the issues are the same.
C21_Witness ==
    /\ pc = "returned"
    /\ kept # << >>
    /\ kept[1].file = f
    /\ ~kept[1].debug
    /\ debugWriter.set
    /\ debugWriter.written = <<FailedText>>
    /\ c.issues # << >>
    /\ c.issues = kept[1].issues

====
